---- MODULE Spec2Model ----
(***************************************************************************)
(* A model of the two-stage hallucination audit of                         *)
(* pratiksontakke/detect-hallucination:                                    *)
(*   ask_model.py  (the Responder: ModelInteractor and its main)           *)
(*   validator.py  (the Validator: HallucinationValidator and its main)    *)
(* The two scripts are run one after the other by an operator and share    *)
(* nothing but the files kb.json, responses.json and the .env credential.  *)
(*                                                                         *)
(* Texts are sequences of one-character strings; a Python value that may   *)
(* be None is a record [null, text].  The language-model endpoint is the   *)
(* environment: each call either raises or returns a content text.         *)
(* Writes to run.log are left out: no action reads the log.                *)
(***************************************************************************)
EXTENDS Integers, Sequences, FiniteSets, TLC

VARIABLES
    api_key,             \* config.get("OPENAI_API_KEY") is set (.env)
    kb_file,             \* kb.json on disk
    responses_file,      \* responses.json on disk
    validation_file,     \* validation_results.json on disk
    rpc,                 \* position of the ask_model.py process
    results,             \* process_questions: the list being built
    queries,             \* outcomes of the Responder's API calls, in order
    rout,                \* what ask_model.py printed
    rexit,               \* exit status of ask_model.py (<<>> while not exited)
    vpc,                 \* position of the validator.py process
    responses,           \* HallucinationValidator.responses
    validation_results,  \* validate_all_responses: the list being built
    result,              \* the last value validate_response returned
    calls,               \* per validated record: outcomes of its API calls
    vout,                \* what validator.py printed
    summary,             \* the numbers of the printed summary
    vexit,               \* exit status of validator.py (<<>> while not exited)
    str1, str2, score    \* the similarity harness: two texts and their score

envVars  == <<api_key, kb_file>>
respVars == <<responses_file, rpc, results, queries, rout, rexit>>
valVars  == <<validation_file, vpc, responses, validation_results, result, calls,
              vout, summary, vexit>>
simVars  == <<str1, str2, score>>
vars     == <<envVars, respVars, valVars, simVars>>

-----------------------------------------------------------------------------
(* Bounds *)

\* the largest number of qa_pairs in kb.json
MaxKB == 2
\* the longest text given to the similarity harness
MaxLen == 3
\* the most calls the endpoint fails in one run of the pipeline
MaxErrors == 2

-----------------------------------------------------------------------------
(* Optional texts *)

None == [null |-> TRUE, text |-> <<>>]
Str(t) == [null |-> FALSE, text |-> t]
\* Python truthiness of an Optional[str]: None and "" are falsy
Truthy(x) == ~x.null /\ Len(x.text) > 0

\* a lower() that folds nothing (the comparison made case-sensitive)
LowerCharIdentity(c) == c
\* str.lower() on one character of the model's alphabet
LowerChar(c) ==
    CASE c = "A" -> "a"
      [] c = "B" -> "b"
      [] c = "C" -> "c"
      [] OTHER -> c

lower(s) == [i \in 1..Len(s) |-> LowerChar(s[i])]

\* str.strip(): drop leading and trailing blanks
RECURSIVE lstrip(_)
lstrip(s) == IF Len(s) > 0 /\ s[1] = " " THEN lstrip(Tail(s)) ELSE s
RECURSIVE rstrip(_)
rstrip(s) == IF Len(s) > 0 /\ s[Len(s)] = " " THEN rstrip(SubSeq(s, 1, Len(s) - 1)) ELSE s
strip(s) == rstrip(lstrip(s))

-----------------------------------------------------------------------------
(* difflib.SequenceMatcher(None, a, b).ratio(), as string_similarity calls *)
(* it: no junk function, and autojunk only acts on texts of 200 or more    *)
(* characters, beyond every bound used here.  Indices are 1-based and the  *)
(* windows alo..ahi, blo..bhi are inclusive.                               *)

\* length of the common run of a and b that starts at a[i], b[j]
RECURSIVE RunLen(_, _, _, _, _, _)
RunLen(a, b, i, j, ahi, bhi) ==
    IF i > ahi \/ j > bhi THEN 0
    ELSE IF a[i] # b[j] THEN 0
    ELSE 1 + RunLen(a, b, i + 1, j + 1, ahi, bhi)

\* the longest matching block of a[alo..ahi] and b[blo..bhi]; of the longest,
\* the one starting earliest in a, and of those the one starting earliest in b
find_longest_match(a, b, alo, ahi, blo, bhi) ==
    LET cands == (alo..ahi) \X (blo..bhi)
        len(c) == RunLen(a, b, c[1], c[2], ahi, bhi)
        hits == {c \in cands : len(c) > 0}
    IN  IF hits = {} THEN [i |-> alo, j |-> blo, size |-> 0]
        ELSE LET best == CHOOSE c \in hits :
                     \A d \in hits :
                         \/ len(c) > len(d)
                         \/ /\ len(c) = len(d)
                            /\ \/ c[1] < d[1]
                               \/ c[1] = d[1] /\ c[2] <= d[2]
             IN  [i |-> best[1], j |-> best[2], size |-> len(best)]

\* the total size of get_matching_blocks(): the longest block, then the same
\* to its left and to its right
RECURSIVE Matches(_, _, _, _, _, _)
Matches(a, b, alo, ahi, blo, bhi) ==
    LET m == find_longest_match(a, b, alo, ahi, blo, bhi)
    IN  IF m.size = 0 THEN 0
        ELSE Matches(a, b, alo, m.i - 1, blo, m.j - 1)
             + m.size
             + Matches(a, b, m.i + m.size, ahi, m.j + m.size, bhi)

\* ratio(): 2.0 * matches / (len(a) + len(b)), and 1.0 for two empty texts;
\* kept as the exact fraction num/den
ratio(a, b) ==
    LET T == Len(a) + Len(b)
    IN  IF T > 0 THEN [num |-> 2 * Matches(a, b, 1, Len(a), 1, Len(b)), den |-> T]
        ELSE [num |-> 1, den |-> 1]

string_similarity(s1, s2) == ratio(lower(s1), lower(s2))

\* comparisons of scores kept as fractions (denominators are positive)
RatEq(x, y) == x.num * y.den = y.num * x.den
RatLess(x, y) == x.num * y.den < y.num * x.den
One == [num |-> 1, den |-> 1]
Zero == [num |-> 0, den |-> 1]

-----------------------------------------------------------------------------
(* The environment: kb.json and the language-model endpoint *)

\* questions of the knowledge base, by position
QuestionPool == <<"What is 2+2?", "What is the capital of France?",
                  "Who wrote Hamlet?", "What is the boiling point of water?">>

\* the stored answers a qa_pair may carry ("" is an entry left unanswered)
AnswerTexts == {<<"a", "b", "c">>, <<>>}

\* every kb.json of at most MaxKB qa_pairs
KnowledgeBases ==
    UNION {[1..n -> AnswerTexts] : n \in 0..MaxKB}
QaPairs(answers) ==
    [i \in 1..Len(answers) |-> [question |-> QuestionPool[i], answer |-> Str(answers[i])]]

Missing == [exists |-> FALSE, data |-> <<>>]
File(d) == [exists |-> TRUE, data |-> d]

\* ask_model.py:73-79
edge_cases == <<"What is the capital of the ancient Atlantis?",
                "How many atoms are in a human thought?",
                "What color is the number 7?",
                "What is the sound of one hand clapping?",
                "Can you explain quantum physics to a goldfish?">>

\* what client.chat.completions.create can do for a call: raise, or return a
\* message whose content is a text
ApiError == [ok |-> FALSE, content |-> <<>>]
ApiReply(t) == [ok |-> TRUE, content |-> t]
KbReplies == {ApiReply(<<"a", "b", " ">>), ApiReply(<<"A", "b", "c">>), ApiReply(<<"a">>)}
EdgeReplies == {ApiReply(<<"x">>)}
RetryReplies == {ApiReply(<<" ", "a", "b", "c">>)}
\* calls that raised so far, in both stages
ErrorsSoFar ==
    Cardinality({i \in 1..Len(queries) : ~queries[i].ok})
    + Cardinality({c \in (1..Len(calls)) \X (1..1) :
                      c[2] <= Len(calls[c[1]]) /\ ~calls[c[1]][c[2]].ok})
Raises == IF ErrorsSoFar < MaxErrors THEN {ApiError} ELSE {}

ApiOutcomes(question) ==
    Raises \cup
    (IF \E i \in 1..Len(edge_cases) : edge_cases[i] = question THEN EdgeReplies ELSE KbReplies)

-----------------------------------------------------------------------------
(* ask_model.py *)

CompleteMsg == "Processing complete. Check run.log for details."
ErrorMsg == "An error occurred"

\* a get_model_response whose except clause returns "" instead of None
get_model_response_blank(api) == IF api.ok THEN Str(strip(api.content)) ELSE Str(<<>>)
\* get_model_response: the stripped content, or None when the call raised
get_model_response(api) == IF api.ok THEN Str(strip(api.content)) ELSE None

\* a knowledge-base record that drops the stored answer
KbRecordNoAnswer(qa_pair, response) ==
    [question |-> qa_pair.question, model_response |-> response,
     type |-> "kb_question", kb_answer |-> None]
\* the record process_questions appends for a qa_pair
KbRecord(qa_pair, response) ==
    [question |-> qa_pair.question, model_response |-> response,
     type |-> "kb_question", kb_answer |-> qa_pair.answer]

\* the record process_questions appends for an edge case
EdgeRecord(question, response) ==
    [question |-> question, model_response |-> response,
     type |-> "edge_case", kb_answer |-> None]

\* the interpreter's exit status once main() has returned
ExitAfterMain == <<0>>

\* main, when ModelInteractor() raises: no key, or no kb.json; the except
\* clause of main prints the error and main returns
ResponderStartFails ==
    /\ rpc = "idle" /\ vpc = "idle"
    /\ ~api_key \/ ~kb_file.exists
    /\ rpc' = "exited"
    /\ rout' = Append(rout, ErrorMsg)
    /\ rexit' = ExitAfterMain
    /\ UNCHANGED <<envVars, responses_file, results, queries, valVars, simVars>>

\* main, when ModelInteractor() succeeds: process_questions begins
ResponderStart ==
    /\ rpc = "idle" /\ vpc = "idle"
    /\ api_key /\ kb_file.exists
    /\ rpc' = "kb_loop"
    /\ results' = <<>>
    /\ UNCHANGED <<envVars, responses_file, queries, rout, rexit, valVars, simVars>>

\* one iteration of the loop over self.kb['qa_pairs']
ProcessKbQuestion ==
    /\ rpc = "kb_loop"
    /\ Len(results) < Len(kb_file.data)
    /\ LET qa_pair == kb_file.data[Len(results) + 1]
       IN  \E api \in ApiOutcomes(qa_pair.question) :
               /\ results' = Append(results, KbRecord(qa_pair, get_model_response(api)))
               /\ queries' = Append(queries, [question |-> qa_pair.question, ok |-> api.ok])
    /\ UNCHANGED <<envVars, responses_file, rpc, rout, rexit, valVars, simVars>>

\* the loop over qa_pairs ends
KbLoopEnds ==
    /\ rpc = "kb_loop"
    /\ Len(results) = Len(kb_file.data)
    /\ rpc' = "edge_loop"
    /\ UNCHANGED <<envVars, responses_file, results, queries, rout, rexit, valVars, simVars>>

\* one iteration of the loop over edge_cases
ProcessEdgeCase ==
    /\ rpc = "edge_loop"
    /\ Len(results) < Len(kb_file.data) + Len(edge_cases)
    /\ LET question == edge_cases[Len(results) - Len(kb_file.data) + 1]
       IN  \E api \in ApiOutcomes(question) :
               /\ results' = Append(results, EdgeRecord(question, get_model_response(api)))
               /\ queries' = Append(queries, [question |-> question, ok |-> api.ok])
    /\ UNCHANGED <<envVars, responses_file, rpc, rout, rexit, valVars, simVars>>

\* process_questions returns; main dumps the list to responses.json, prints
\* the completion message and returns
ResponderFinish ==
    /\ rpc = "edge_loop"
    /\ Len(results) = Len(kb_file.data) + Len(edge_cases)
    /\ responses_file' = File(results)
    /\ rout' = Append(rout, CompleteMsg)
    /\ rpc' = "exited"
    /\ rexit' = ExitAfterMain
    /\ UNCHANGED <<envVars, results, queries, valVars, simVars>>

-----------------------------------------------------------------------------
(* validator.py *)

ValidationCompleteMsg == "Validation complete. Check run.log for details."

VALID == "VALID"
RETRY_DIVERGENT == "RETRY: answer differs from KB"
RETRY_OUT_OF_DOMAIN == "RETRY: out-of-domain"

\* 'RETRY' in r['validation_result'], over the three statuses there are
ContainsRETRY(status) == status \in {RETRY_DIVERGENT, RETRY_OUT_OF_DOMAIN}

\* the literal "Error during retry"
ErrorDuringRetry == <<"E", "r", "r", "o", "r", " ", "d", "u", "r", "i", "n", "g", " ",
                      "r", "e", "t", "r", "y">>

\* a similarity that may be None
NoSim == [null |-> TRUE, num |-> 0, den |-> 1]
Sim(r) == [null |-> FALSE, num |-> r.num, den |-> r.den]

\* similarity < 0.8, on the exact fraction: the float 2.0*M/T is the double
\* nearest to the fraction and 0.8 the double nearest to 8/10, so the two
\* comparisons agree for every text shorter than 2^50 characters
ThresholdTenths == 8
\* the comparison written <= (0.8 itself sent to retry)
BelowOrAtThreshold(similarity) == similarity.num * 10 <= ThresholdTenths * similarity.den
BelowThreshold(similarity) == similarity.num * 10 < ThresholdTenths * similarity.den

\* the user prompt retry_question builds
RetryPrompt(kb_answer) == IF Truthy(kb_answer) THEN "similar to kb_answer" ELSE "may be out of domain"

\* a retry_question whose except clause returns None
retry_question_none(question, kb_answer, api) ==
    IF api.ok THEN Str(strip(api.content)) ELSE None
\* retry_question: the stripped content, or the placeholder when the call raised
retry_question(question, kb_answer, api) ==
    IF api.ok THEN Str(strip(api.content)) ELSE Str(ErrorDuringRetry)

\* one API call as the endpoint sees it
Call(question, kb_answer, api) ==
    [question |-> question, prompt |-> RetryPrompt(kb_answer), ok |-> api.ok]

\* validate_response propagates the AttributeError of None.lower()
Raised == [raised |-> TRUE, status |-> "", similarity |-> NoSim,
           retry_response |-> None, calls |-> <<>>]
Returned(status, similarity, retry_response, made) ==
    [raised |-> FALSE, status |-> status, similarity |-> similarity,
     retry_response |-> retry_response, calls |-> made]

\* a validate_response that issues the retry query for VALID records too
validate_response_always_retries(question, model_response, kb_answer, api) ==
    IF Truthy(kb_answer)
    THEN IF model_response.null THEN Raised
         ELSE LET similarity == string_similarity(model_response.text, kb_answer.text)
              IN  Returned(IF BelowThreshold(similarity) THEN RETRY_DIVERGENT ELSE VALID,
                           Sim(similarity),
                           retry_question(question, kb_answer, api),
                           <<Call(question, kb_answer, api)>>)
    ELSE Returned(RETRY_OUT_OF_DOMAIN, NoSim,
                  retry_question(question, None, api),
                  <<Call(question, None, api)>>)
\* a validate_response that lets the retry's outcome decide the status
validate_response_status_from_retry(question, model_response, kb_answer, api) ==
    IF Truthy(kb_answer)
    THEN IF model_response.null THEN Raised
         ELSE LET similarity == string_similarity(model_response.text, kb_answer.text)
              IN  IF BelowThreshold(similarity)
                  THEN Returned(IF api.ok THEN RETRY_DIVERGENT ELSE VALID,
                                Sim(similarity),
                                retry_question(question, kb_answer, api),
                                <<Call(question, kb_answer, api)>>)
                  ELSE Returned(VALID, Sim(similarity), None, <<>>)
    ELSE Returned(RETRY_OUT_OF_DOMAIN, NoSim,
                  retry_question(question, None, api),
                  <<Call(question, None, api)>>)
\* validate_response; api is what the endpoint does if it is called
validate_response(question, model_response, kb_answer, api) ==
    IF Truthy(kb_answer)
    THEN IF model_response.null THEN Raised
         ELSE LET similarity == string_similarity(model_response.text, kb_answer.text)
              IN  IF BelowThreshold(similarity)
                  THEN Returned(RETRY_DIVERGENT, Sim(similarity),
                                retry_question(question, kb_answer, api),
                                <<Call(question, kb_answer, api)>>)
                  ELSE Returned(VALID, Sim(similarity), None, <<>>)
    ELSE Returned(RETRY_OUT_OF_DOMAIN, NoSim,
                  retry_question(question, None, api),
                  <<Call(question, None, api)>>)

\* the entry validate_all_responses appends
validation_entry(response, r) ==
    [question |-> response.question,
     original_response |-> response.model_response,
     validation_result |-> r.status,
     retry_response |-> r.retry_response]

NoResult == [status |-> "", similarity |-> NoSim, retry_response |-> None]
ResultOf(r) == [status |-> r.status, similarity |-> r.similarity,
                retry_response |-> r.retry_response]

RetryOutcomes == Raises \cup RetryReplies

\* a formatting that cuts the digits after the second decimal
FormatTruncated(valid, total) == (10000 * valid) \div total
\* f"{x:.2f}" of x = ((total - hallucinations) / total) * 100, in hundredths:
\* the nearest hundredth, a tie going to the even one
Format2f(valid, total) ==
    LET q == (10000 * valid) \div total
        r == (10000 * valid) % total
    IN  IF 2 * r > total THEN q + 1
        ELSE IF 2 * r < total THEN q
        ELSE IF q % 2 = 0 THEN q ELSE q + 1

NoSummary == [total |-> <<>>, hallucinations |-> <<>>, accuracy |-> <<>>]

\* sum(1 for r in results if 'RETRY' in r['validation_result'])
CountAll(rs) == Len(rs)
CountRETRY(rs) == Cardinality({i \in 1..Len(rs) : ContainsRETRY(rs[i].validation_result)})

\* main, when HallucinationValidator() raises: no key, no kb.json or no
\* responses.json; the except clause of main prints the error and main returns
ValidatorStartFails ==
    /\ vpc = "idle" /\ rpc \in {"idle", "exited"}
    /\ ~api_key \/ ~kb_file.exists \/ ~responses_file.exists
    /\ vpc' = "exited"
    /\ vout' = Append(vout, ErrorMsg)
    /\ vexit' = ExitAfterMain
    /\ UNCHANGED <<envVars, respVars, validation_file, responses, validation_results,
                   result, calls, summary, simVars>>

\* main, when HallucinationValidator() succeeds: validate_all_responses begins
ValidatorStart ==
    /\ vpc = "idle" /\ rpc \in {"idle", "exited"}
    /\ api_key /\ kb_file.exists /\ responses_file.exists
    /\ responses' = responses_file.data
    /\ validation_results' = <<>>
    /\ vpc' = "loop"
    /\ UNCHANGED <<envVars, respVars, validation_file, result, calls, vout, summary,
                   vexit, simVars>>

\* one iteration of the loop of validate_all_responses
ValidateRecord ==
    /\ vpc = "loop"
    /\ Len(validation_results) < Len(responses)
    /\ LET response == responses[Len(validation_results) + 1]
       IN  \E api \in RetryOutcomes :
               LET r == validate_response(response.question, response.model_response,
                                          response.kb_answer, api)
               IN  /\ ~r.raised
                   /\ result' = ResultOf(r)
                   /\ validation_results' = Append(validation_results,
                                                   validation_entry(response, r))
                   /\ calls' = Append(calls, r.calls)
    /\ UNCHANGED <<envVars, respVars, validation_file, vpc, responses, vout, summary,
                   vexit, simVars>>

\* an iteration in which validate_response raises: the exception leaves
\* validate_all_responses, main's except clause prints it and main returns
ValidateRecordRaises ==
    /\ vpc = "loop"
    /\ Len(validation_results) < Len(responses)
    /\ LET response == responses[Len(validation_results) + 1]
       IN  \E api \in RetryOutcomes :
               validate_response(response.question, response.model_response,
                                 response.kb_answer, api).raised
    /\ vpc' = "exited"
    /\ vout' = Append(vout, ErrorMsg)
    /\ vexit' = ExitAfterMain
    /\ UNCHANGED <<envVars, respVars, validation_file, responses, validation_results,
                   result, calls, summary, simVars>>

\* validate_all_responses returns; main dumps the list, prints the completion
\* message and the summary (a ZeroDivisionError when there is no record, after
\* the first two numbers are printed) and returns
ValidatorFinish ==
    /\ vpc = "loop"
    /\ Len(validation_results) = Len(responses)
    /\ validation_file' = File(validation_results)
    /\ LET total == CountAll(validation_results)
           hallucinations == CountRETRY(validation_results)
       IN  IF total = 0
           THEN /\ summary' = [total |-> <<total>>, hallucinations |-> <<hallucinations>>,
                               accuracy |-> <<>>]
                /\ vout' = vout \o <<ValidationCompleteMsg, "Summary:", ErrorMsg>>
           ELSE /\ summary' = [total |-> <<total>>, hallucinations |-> <<hallucinations>>,
                               accuracy |-> <<Format2f(total - hallucinations, total)>>]
                /\ vout' = vout \o <<ValidationCompleteMsg, "Summary:">>
    /\ vpc' = "exited"
    /\ vexit' = ExitAfterMain
    /\ UNCHANGED <<envVars, respVars, responses, validation_results, result, calls,
                   simVars>>

-----------------------------------------------------------------------------
(* The pipeline *)

Init ==
    /\ api_key \in BOOLEAN
    /\ kb_file \in {Missing} \cup {File(QaPairs(answers)) : answers \in KnowledgeBases}
    /\ responses_file = Missing
    /\ validation_file = Missing
    /\ rpc = "idle"
    /\ results = <<>>
    /\ queries = <<>>
    /\ rout = <<>>
    /\ rexit = <<>>
    /\ vpc = "idle"
    /\ responses = <<>>
    /\ validation_results = <<>>
    /\ result = NoResult
    /\ calls = <<>>
    /\ vout = <<>>
    /\ summary = NoSummary
    /\ vexit = <<>>
    /\ str1 = <<>>
    /\ str2 = <<>>
    /\ score = NoSim

Next ==
    \/ ResponderStartFails
    \/ ResponderStart
    \/ ProcessKbQuestion
    \/ KbLoopEnds
    \/ ProcessEdgeCase
    \/ ResponderFinish
    \/ ValidatorStartFails
    \/ ValidatorStart
    \/ ValidateRecord
    \/ ValidateRecordRaises
    \/ ValidatorFinish

Spec == Init /\ [][Next]_vars

-----------------------------------------------------------------------------
(* The similarity harness: string_similarity applied to every pair of texts *)
(* of at most MaxLen characters                                            *)

SimAlphabet == {"a", "b", "c", "A"}
SimTexts == UNION {[1..n -> SimAlphabet] : n \in 0..MaxLen}

SimInit ==
    /\ str1 \in SimTexts
    /\ str2 \in SimTexts
    /\ score = NoSim
    /\ api_key = FALSE
    /\ kb_file = Missing
    /\ responses_file = Missing
    /\ validation_file = Missing
    /\ rpc = "idle"
    /\ results = <<>>
    /\ queries = <<>>
    /\ rout = <<>>
    /\ rexit = <<>>
    /\ vpc = "idle"
    /\ responses = <<>>
    /\ validation_results = <<>>
    /\ result = NoResult
    /\ calls = <<>>
    /\ vout = <<>>
    /\ summary = NoSummary
    /\ vexit = <<>>

ComputeSimilarity ==
    /\ score.null
    /\ score' = Sim(string_similarity(str1, str2))
    /\ UNCHANGED <<envVars, respVars, valVars, str1, str2>>

SimNext == ComputeSimilarity

SimSpec == SimInit /\ [][SimNext]_vars

-----------------------------------------------------------------------------
(* Properties of the Responder *)

\* the five probe questions, as the specification fixes them
FixedProbes == <<"What is the capital of the ancient Atlantis?",
                 "How many atoms are in a human thought?",
                 "What color is the number 7?",
                 "What is the sound of one hand clapping?",
                 "Can you explain quantum physics to a goldfish?">>

\* process_questions has returned (main then wrote responses.json)
ResponderReturned == rpc = "exited" /\ responses_file.exists

\* C1: for a knowledge base of N entries and any pattern of call outcomes,
\* the list process_questions returns has exactly N+5 records: record i <= N
\* carries entry i's question, kind kb_question and entry i's stored answer;
\* records N+1..N+5 are the five fixed probes in order, kind edge_case, with
\* no reference answer.
C1_ProcessQuestionsRecords ==
    ResponderReturned =>
        LET N == Len(kb_file.data)
        IN  /\ Len(results) = N + 5
            /\ \A i \in 1..N :
                   /\ results[i].question = kb_file.data[i].question
                   /\ results[i].type = "kb_question"
                   /\ results[i].kb_answer = kb_file.data[i].answer
            /\ \A k \in 1..5 :
                   /\ results[N + k].question = FixedProbes[k]
                   /\ results[N + k].type = "edge_case"
                   /\ results[N + k].kb_answer = None

\* a returned list for two entries with different stored answers, after one
\* call failed and another succeeded
C1_Witness ==
    /\ ResponderReturned
    /\ Len(kb_file.data) = 2
    /\ kb_file.data[1].answer # kb_file.data[2].answer
    /\ \E i, j \in 1..Len(queries) : ~queries[i].ok /\ queries[j].ok

\* C2: a failed query still yields that question's record, with
\* model_response None, and the questions after it are still queried and
\* recorded: every question asked so far has its record, in order, and a
\* batch that has ended has asked and recorded all N+5 questions.
C2_FailedQueryKeepsBatch ==
    /\ Len(results) = Len(queries)
    /\ \A i \in 1..Len(queries) :
           /\ results[i].question = queries[i].question
           /\ ~queries[i].ok => results[i].model_response = None
           /\ queries[i].ok => ~results[i].model_response.null
    /\ (rpc = "exited" /\ queries # <<>>) =>
           /\ Len(queries) = Len(kb_file.data) + 5
           /\ responses_file = File(results)

\* a finished batch in which a failed query is followed by a successful one
C2_Witness ==
    /\ ResponderReturned
    /\ \E i \in 1..(Len(queries) - 1) :
           /\ ~queries[i].ok
           /\ queries[i + 1].ok
           /\ results[i].model_response = None
           /\ ~results[i + 1].model_response.null

-----------------------------------------------------------------------------
(* Properties of the Validator *)

\* the Validator loaded responses.json (the Responder never writes fewer
\* than five records)
ValidatorLoaded == responses # <<>>

\* C3: for every list the Responder can persist, the Validator persists
\* exactly one ValidationRecord per input record, in the same question order;
\* no per-item error aborts the run or drops a record.
C3_OneValidationRecordPerInput ==
    (vpc = "exited" /\ ValidatorLoaded) =>
        /\ validation_file.exists
        /\ Len(validation_file.data) = Len(responses)
        /\ \A i \in 1..Len(responses) :
               validation_file.data[i].question = responses[i].question


\* the record the last completed iteration validated
LastResponse == responses[Len(validation_results)]

\* a score at or above 0.8, stated on the fraction itself: num/den >= 4/5
AtLeastFourFifths(sim) == 5 * sim.num >= 4 * sim.den

RetryFailed(i) == \E k \in 1..Len(calls[i]) : ~calls[i][k].ok

\* C5: every ValidationRecord of a probe question (a record with no reference
\* answer) has status RETRY_OUT_OF_DOMAIN whatever the original response was,
\* and a non-null retry_response: the literal "Error during retry" when the
\* retry call failed, the retry model's text otherwise.
C5_ProbesOutOfDomain ==
    \A i \in 1..Len(validation_results) :
        responses[i].kb_answer = None =>
            /\ validation_results[i].validation_result = RETRY_OUT_OF_DOMAIN
            /\ validation_results[i].retry_response # None
            /\ RetryFailed(i) =>
                   validation_results[i].retry_response = Str(ErrorDuringRetry)
            /\ ~RetryFailed(i) =>
                   \E api \in RetryReplies :
                       validation_results[i].retry_response = Str(strip(api.content))

\* two validated probes, one whose original response is None and whose retry
\* failed, one answered whose retry succeeded
C5_Witness ==
    \E i, j \in 1..Len(validation_results) :
        /\ responses[i].kb_answer = None /\ responses[j].kb_answer = None
        /\ responses[i].model_response = None /\ RetryFailed(i)
        /\ validation_results[i].retry_response = Str(ErrorDuringRetry)
        /\ responses[j].model_response # None /\ ~RetryFailed(j)

\* what validate_response returns for record i when its retry call succeeds
WithRetrySucceeding(i) ==
    validate_response(responses[i].question, responses[i].model_response,
                      responses[i].kb_answer, CHOOSE api \in RetryReplies : TRUE)

\* C6: a failed retry call does not propagate: the record is emitted with
\* retry_response "Error during retry", its status and similarity score are
\* those it would have had with the retry succeeding, and the step that saw
\* the failure leaves the Validator in its loop, on to the next record.
C6_RetryFailureAbsorbed ==
    /\ [](/\ Len(calls) = Len(validation_results)
          /\ \A i \in 1..Len(validation_results) :
                 RetryFailed(i) =>
                     /\ validation_results[i].retry_response = Str(ErrorDuringRetry)
                     /\ validation_results[i].validation_result = WithRetrySucceeding(i).status
                     /\ i = Len(validation_results) =>
                            result.similarity = WithRetrySucceeding(i).similarity)
    /\ [][(Len(calls') = Len(calls) + 1 /\ RetryFailed(Len(calls))')
              => (vpc' = "loop" /\ vexit' = <<>>
                  /\ Len(validation_results') = Len(validation_results) + 1)]_vars

\* a divergent knowledge-base record whose retry failed, with a later record
\* validated after it
C6_Witness ==
    \E i \in 1..(Len(validation_results) - 1) :
        /\ RetryFailed(i)
        /\ validation_results[i].validation_result = RETRY_DIVERGENT
        /\ validation_results[i].retry_response = Str(ErrorDuringRetry)

\* records whose status is not VALID, counted on the statuses themselves
NonValid(rs) == Cardinality({i \in 1..Len(rs) : rs[i].validation_result # "VALID"})

SummaryPrinted == summary.accuracy # <<>>

\* C7 as stated: the summary's total is the number of ValidationRecords, its
\* hallucination count the number of records not VALID, and its accuracy
\* percentage equals 100 * VALID / total.
C7_SummaryExact ==
    SummaryPrinted =>
        LET n == Len(validation_file.data)
        IN  /\ summary.total = <<n>>
            /\ summary.hallucinations = <<NonValid(validation_file.data)>>
            /\ summary.accuracy[1] * n = 10000 * (n - NonValid(validation_file.data))

\* C7, amended: the accuracy percentage printed is 100 * VALID / total
\* rounded to two decimal places: it is within half a hundredth of the
\* quotient (accuracy is in hundredths of a percent).
C7_SummaryRounded ==
    SummaryPrinted =>
        LET n == Len(validation_file.data)
            valid == n - NonValid(validation_file.data)
            diff == summary.accuracy[1] * n - 10000 * valid
        IN  /\ summary.total = <<n>>
            /\ summary.hallucinations = <<NonValid(validation_file.data)>>
            /\ 2 * diff <= n
            /\ 2 * diff >= -n

\* a summary of seven records, two of them VALID: 28.57 is printed for 200/7
C7_Witness ==
    /\ SummaryPrinted
    /\ summary.total = <<7>>
    /\ summary.hallucinations = <<5>>
    /\ summary.accuracy = <<2857>>

\* C10: the Validator issues exactly one model query for a record classified
\* RETRY_DIVERGENT or RETRY_OUT_OF_DOMAIN, also when that query fails, and none
\* for a record classified VALID, whose retry_response is None; and once a
\* record is written, neither it nor its queries change: no retry of a retry,
\* no status recomputed from the retry response.
C10_OneRetryAtMost ==
    /\ [](/\ Len(calls) = Len(validation_results)
          /\ \A i \in 1..Len(validation_results) :
                 /\ validation_results[i].validation_result
                        \in {RETRY_DIVERGENT, RETRY_OUT_OF_DOMAIN}
                        => Len(calls[i]) = 1 /\ calls[i][1].question = responses[i].question
                 /\ validation_results[i].validation_result = VALID
                        => Len(calls[i]) = 0 /\ validation_results[i].retry_response = None)
    /\ [][\A i \in 1..Len(validation_results) :
              /\ Len(validation_results') >= i
              /\ validation_results'[i] = validation_results[i]
              /\ calls'[i] = calls[i]]_vars

\* a finished validation holding a VALID record, a divergent record and a
\* record whose single retry failed
C10_Witness ==
    /\ vpc = "exited" /\ validation_file.exists
    /\ \E i, j, k \in 1..Len(validation_results) :
           /\ validation_results[i].validation_result = VALID
           /\ validation_results[j].validation_result = RETRY_DIVERGENT
           /\ RetryFailed(k) /\ Len(calls[k]) = 1

-----------------------------------------------------------------------------
(* Exit status *)

RanToCompletion(out, msg) == \E i \in 1..Len(out) : out[i] = msg

\* C9: a stage ends with a success exit only when it ran to completion; a
\* startup failure (no credential, no kb.json, no responses.json) prints an
\* error message and ends without a success exit.
C9_SuccessExitOnlyOnCompletion ==
    /\ rexit = <<0>> => RanToCompletion(rout, "Processing complete. Check run.log for details.")
    /\ vexit = <<0>> => RanToCompletion(vout, "Validation complete. Check run.log for details.")

-----------------------------------------------------------------------------
(* Properties of the similarity score, under SimSpec *)

\* t is s with some letters changed in case only
SameUpToCase(s, t) ==
    /\ Len(s) = Len(t)
    /\ \A i \in 1..Len(s) :
           \/ s[i] = t[i]
           \/ {s[i], t[i]} \in {{"a", "A"}, {"b", "B"}, {"c", "C"}}

====
